---- MODULE Spec2Model ----
(***************************************************************************)
(* Gaussian DFT speech detector: GaussianDFTAudioDetector (AudioDetector)  *)
(* and the FFT class it owns, and the App component that calls them.       *)
(*                                                                         *)
(* Numbers.  A JavaScript number is modelled as an exact fraction          *)
(* [n |-> numerator, d |-> denominator] in lowest terms with d > 0, and    *)
(* the three IEEE specials as NaN = 0/0, +Infinity = 1/0, -Infinity =      *)
(* -1/0.  Arithmetic is exact: rounding and overflow of float32/float64    *)
(* are not modelled.  Math.sqrt, Math.exp and Math.log are kept symbolic   *)
(* (sqrt r, c*e^q, (ln r + q)/b) so that squaring a magnitude or taking    *)
(* the logarithm of a likelihood is computed, not assumed.                 *)
(***************************************************************************)
EXTENDS Integers, Sequences, FiniteSets, TLC

\***************************************************************************
\* Bounds of the model
\***************************************************************************
MaxLen == 5
MaxHop == 2
MaxSize == 5
MaxFrames == 3
MaxIn == 4

Samples == {0, 1}
FFTSamples == {-1, 0, 1}

\***************************************************************************
\* JavaScript numbers
\***************************************************************************
Abs(a) == IF a < 0 THEN -a ELSE a

Sign(a) == IF a < 0 THEN -1 ELSE IF a > 0 THEN 1 ELSE 0

RECURSIVE GCD(_, _)
GCD(a, b) == IF b = 0 THEN a ELSE GCD(b, a % b)

Norm(n, d) ==
  IF d = 0 THEN [n |-> Sign(n), d |-> 0]
  ELSE LET g == GCD(Abs(n), Abs(d))
           s == IF d < 0 THEN -1 ELSE 1
       IN  [n |-> (s * n) \div g, d |-> (s * d) \div g]

Num(a) == [n |-> a, d |-> 1]

NaN == [n |-> 0, d |-> 0]

Infinity == [n |-> 1, d |-> 0]

Zero == Num(0)

One == Num(1)

IsNaN(x) == x.d = 0 /\ x.n = 0

IsInf(x) == x.d = 0 /\ x.n # 0

IsFinite(x) == x.d # 0

\* x + y
Add(x, y) ==
  IF IsNaN(x) \/ IsNaN(y) THEN NaN
  ELSE IF IsInf(x) /\ IsInf(y) THEN (IF x.n = y.n THEN x ELSE NaN)
  ELSE Norm(x.n * y.d + y.n * x.d, x.d * y.d)

Neg(x) == [n |-> 0 - x.n, d |-> x.d]

\* x - y
Sub(x, y) == Add(x, Neg(y))

\* x * y
Mul(x, y) == Norm(x.n * y.n, x.d * y.d)

\* x / y  (0/0 is NaN, a/0 is +-Infinity)
Div(x, y) ==
  IF IsNaN(x) \/ IsNaN(y) THEN NaN
  ELSE Mul(x, Norm(y.d, y.n))

\* x < y  (false when either is NaN)
Lt(x, y) ==
  IF IsNaN(x) \/ IsNaN(y) THEN FALSE
  ELSE IF IsInf(x) /\ IsInf(y) THEN x.n < y.n
  ELSE x.n * y.d < y.n * x.d

\* x <= y  (false when either is NaN)
Le(x, y) == (~IsNaN(x)) /\ (~IsNaN(y)) /\ ~Lt(y, x)

\* Math.max(x, y)
MathMax(x, y) ==
  IF IsNaN(x) \/ IsNaN(y) THEN NaN
  ELSE IF Lt(x, y) THEN y ELSE x

\* x || y on numbers: 0 and NaN are falsy
OrElse(x, y) == IF x.n = 0 THEN y ELSE x

\* Math.sqrt(x), kept symbolic
Sqrt(x) == IF Lt(x, Zero) THEN [sq |-> NaN] ELSE [sq |-> x]

\* Math.pow(v, 2) of a value produced by Math.sqrt
Pow2(v) == v.sq

\* Math.cos(2*pi*t) for t a fraction of a turn whose cosine is rational
CosTurn(t) ==
  IF ~IsFinite(t) THEN NaN
  ELSE CASE t.d = 1 -> One
         [] t.d = 2 -> Num(-1)
         [] t.d = 4 -> Zero
         [] t.d = 3 -> Norm(-1, 2)
         [] t.d = 6 -> Norm(1, 2)

\* Math.sin(2*pi*t) for t a multiple of a quarter turn
SinTurn(t) ==
  IF ~IsFinite(t) THEN NaN
  ELSE CASE t.d = 1 -> Zero
         [] t.d = 2 -> Zero
         [] t.d = 4 -> IF t.n % 4 = 1 THEN One ELSE Num(-1)

\* a Float32Array of the numbers of an integer sequence
ToFloats(s) == [k \in 1..Len(s) |-> Num(s[k])]

\* all sequences over S of length 0..n
SeqsUpTo(S, n) == UNION {[1..k -> S] : k \in 0..n}

\***************************************************************************
\* FFT (src/src/lib/FFT.ts)
\***************************************************************************
\* A size is the number  size + high * 2^32  with -2^31 <= size < 2^31: the
\* integers of the model have 32 bits, those of JavaScript 53.

\* ToInt32 of the operands of &: the number modulo 2^32, read as signed
ToInt32(size, high) == size

\* a & b on 32-bit two's complement integers
RECURSIVE BitAnd(_, _)
BitAnd(a, b) ==
  IF a = 0 \/ b = 0 THEN 0
  ELSE IF a = 0 - 1 THEN b
  ELSE IF b = 0 - 1 THEN a
  ELSE (a % 2) * (b % 2) + 2 * BitAnd(a \div 2, b \div 2)

\* size <= 0 on the whole number
NotPositive(size, high) == high < 0 \/ (high = 0 /\ size <= 0)

\* the constructor's guard: size <= 0 || (size & (size - 1)) !== 0
FFTRejects(size, high) ==
  NotPositive(size, high)
  \/ BitAnd(ToInt32(size, high), ToInt32(size - 1, high)) # 0

ConfigError == "FFT size must be a positive power of 2"

\* new Float32Array(size) that cannot be allocated
RangeError == "RangeError"

SizeError == "Input size must match FFT size"

\* the inner loop over j for output bin i, started from acc
RECURSIVE ForwardReal(_, _, _, _, _)
ForwardReal(input, size, i, j, acc) ==
  IF j >= size THEN acc
  ELSE ForwardReal(input, size, i, j + 1,
         Add(acc, Mul(input[j + 1], CosTurn(Norm(i * j, size)))))

RECURSIVE ForwardImag(_, _, _, _, _)
ForwardImag(input, size, i, j, acc) ==
  IF j >= size THEN acc
  ELSE ForwardImag(input, size, i, j + 1,
         Sub(acc, Mul(input[j + 1], SinTurn(Norm(i * j, size)))))

\* real[i] holds input[i] when the accumulation starts
ForwardRealInit(input, i) == input[i + 1]

\* FFT.forward on an input of the right length: the magnitude array
ForwardMagnitude(input, size) ==
  [k \in 1..size |->
     LET re == ForwardReal(input, size, k - 1, 0, ForwardRealInit(input, k - 1))
         im == ForwardImag(input, size, k - 1, 0, Zero)
     IN  Sqrt(Add(Mul(re, re), Mul(im, im)))]

\* FFT.forward: [err, value]
Forward(input, size) ==
  IF Len(input) # size THEN [err |-> SizeError, value |-> <<>>]
  ELSE [err |-> "", value |-> ForwardMagnitude(input, size)]

\***************************************************************************
\* Symbolic Math.exp and Math.log
\***************************************************************************
\* c * e^e.  c is 0, NaN or infinite only with e = 0.
NaNExp == [c |-> NaN, e |-> Zero]

ExpCanon(c, e) ==
  IF IsNaN(c) \/ IsNaN(e) THEN NaNExp
  ELSE IF c.n = 0 \/ IsInf(c) THEN [c |-> c, e |-> Zero]
  ELSE [c |-> c, e |-> e]

\* a number as a likelihood value
ToExp(x) == ExpCanon(x, Zero)

\* Math.exp(q)
Exp(q) ==
  IF IsNaN(q) THEN NaNExp
  ELSE IF IsInf(q) THEN (IF q.n > 0 THEN ToExp(Infinity) ELSE ToExp(Zero))
  ELSE [c |-> One, e |-> q]

\* a * E for a number a and E = c * e^e
Scale(a, E) == ExpCanon(Mul(a, E.c), E.e)

\* Math.max(E, x) for x a number; e^q >= 1 for q >= 0 decides the cases met
MathMaxExp(E, x) ==
  IF IsNaN(E.c) \/ IsNaN(x) THEN NaNExp
  ELSE CASE E.e = Zero -> ToExp(MathMax(E.c, x))
         [] E.e # Zero /\ Lt(Zero, E.e) /\ Le(x, E.c) -> E
         [] E.e # Zero /\ Lt(E.e, Zero) /\ Le(E.c, x) /\ Le(Zero, E.c) -> ToExp(x)
         [] E.e # Zero /\ Lt(E.c, Zero) /\ Le(Zero, x) -> ToExp(x)

\* (ln(ln) + plus) / over;  ln = 0 is -Infinity, ln = 1/0 is +Infinity
NaNLog == [ln |-> NaN, plus |-> Zero, over |-> 1]

LogCanon(r, q, b) ==
  IF IsNaN(r) \/ IsNaN(q) \/ Lt(r, Zero) THEN NaNLog
  ELSE IF r.n = 0 \/ IsInf(r) THEN [ln |-> r, plus |-> Zero, over |-> 1]
  ELSE [ln |-> r, plus |-> q, over |-> b]

\* Math.log(E)
Log(E) == LogCanon(E.c, E.e, 1)

\* the number 0 as a logarithm
ZeroLog == [ln |-> One, plus |-> Zero, over |-> 1]

\* a + b for two logarithms that are not yet divided
AddLog(a, b) == LogCanon(Mul(a.ln, b.ln), Add(a.plus, b.plus), 1)

\* a / k for an integer k
DivLog(a, k) ==
  IF k = 0 THEN NaNLog
  ELSE LogCanon(a.ln, a.plus, k)

RECURSIVE IntPow(_, _)
IntPow(a, k) == IF k <= 0 THEN 1 ELSE a * IntPow(a, k - 1)

RatPow(r, k) == Norm(IntPow(r.n, k), IntPow(r.d, k))

\* floor and ceiling of a finite fraction
Floor(x) == x.n \div x.d

Ceil(x) == 0 - ((0 - x.n) \div x.d)

\* e^q > r for q > 0 and r > 1, decided by 2 < e < 3
ExpGt(q, r) ==
  CASE Le(r, Num(IntPow(2, Floor(q)))) -> TRUE
    [] Le(Num(IntPow(3, Ceil(q))), r) -> FALSE

\* ln(r) + q > 0 for finite r > 0
LnPlusPositive(r, q) ==
  CASE q = Zero -> Lt(One, r)
    [] Lt(Zero, q) /\ Le(One, r) -> TRUE
    [] Lt(q, Zero) /\ Le(r, One) -> FALSE
    [] Lt(Zero, q) /\ Lt(r, One) -> ExpGt(q, Div(One, r))
    [] Lt(q, Zero) /\ Lt(One, r) -> ~ExpGt(Neg(q), r)

\* a > b for two logarithms (false when either is NaN)
GtLog(a, b) ==
  IF IsNaN(a.ln) \/ IsNaN(b.ln) THEN FALSE
  ELSE IF a.ln = Zero \/ b.ln = Infinity THEN FALSE
  ELSE IF b.ln = Zero \/ a.ln = Infinity THEN TRUE
  ELSE LnPlusPositive(Div(RatPow(a.ln, b.over), RatPow(b.ln, a.over)),
                      Sub(Mul(Num(b.over), a.plus), Mul(Num(a.over), b.plus)))

\***************************************************************************
\* GaussianDFTAudioDetector (src/unnamed/part_000)
\***************************************************************************
\* Number.EPSILON is 2^-52.  TLC's integers have 32 bits, so the model uses
\* 2^-10: what is checked needs the substitution and EPSILON > 0 only.
EPSILON == Norm(1, 1024)

Half == Norm(1, 2)

\* default parameters
NNoiseFrames == 10

ALPHA == Norm(49, 50)

DefaultThreshold == Half

NotAudioError == "Please provide a valid audio file."

DecodeError == "Failed to decode audio file. Please ensure it's a valid audio format."

TooShortError == "Audio file is too short for analysis."

NoFramesError == "Not enough frames for noise estimation."

TypeError == "TypeError"

Min(a, b) == IF a < b THEN a ELSE b

Max(a, b) == IF a < b THEN b ELSE a

\* slice: a negative index counts from the end, every index is clamped
SliceIndex(idx, len) == IF idx < 0 THEN Max(len + idx, 0) ELSE Min(idx, len)

\* signal.slice(a, b): a copy of the elements a .. b - 1, empty if there
\* are none
Slice(signal, a, b) ==
  SubSeq(signal, SliceIndex(a, Len(signal)) + 1, SliceIndex(b, Len(signal)))

\* frameSignal: the guard that throws
FrameSignalThrows(signal, frameLen) == Len(signal) < frameLen

\* frameSignal: the loop condition  i < signal.length - this.frameLength
FrameLoopContinues(signal, frameLen, idx) == idx < Len(signal) - frameLen

\* applyWindow: window[i], i counted from 0
HannCoefficient(idx, len) ==
  Mul(Half, Sub(One, CosTurn(Div(Num(idx), Num(len - 1)))))

\* applyWindow
ApplyWindow(frame) ==
  [k \in 1..Len(frame) |-> Mul(frame[k], HannCoefficient(k - 1, Len(frame)))]

\* the divisors applyWindow divides by, one per loop iteration
WindowDivisors(frame) == {Len(frame) - 1 : k \in 1..Len(frame)}

\* dft.slice(0, this.frameLength / 2 + 1): slice truncates the bound
SpectrumLength(frameLen) == frameLen \div 2 + 1

\* extractDFTFeatures for one frame; the frame has the transform's size
FrameFeatures(frame, frameLen, size) ==
  LET dft == Forward(ApplyWindow(frame), size).value
  IN  Slice(dft, 0, SpectrumLength(frameLen))

\* extractDFTFeatures: [err, value]
ExtractDFTFeatures(frameList, frameLen, size) ==
  IF \E k \in 1..Len(frameList) : Len(frameList[k]) # size
  THEN [err |-> SizeError, value |-> <<>>]
  ELSE [err |-> "",
        value |-> [k \in 1..Len(frameList) |->
                     FrameFeatures(frameList[k], frameLen, size)]]

\* estimateNoiseVariance: the sum of squares of bin j over the first k frames
RECURSIVE VarianceSum(_, _, _)
VarianceSum(feats, j, k) ==
  IF k = 0 THEN Zero
  ELSE Add(VarianceSum(feats, j, k - 1), Pow2(feats[k][j]))

\* the count without the clamp to nNoiseFrames
NumFramesToUseAll(feats, nNoiseFrames) == Len(feats)

NumFramesToUse(feats, nNoiseFrames) == Min(Len(feats), nNoiseFrames)

\* estimateNoiseVariance without its check: features[0] of an empty list is
\* undefined and reading its length throws
EstimateNoiseVarianceUnchecked(feats, nNoiseFrames) ==
  LET numFramesToUse == NumFramesToUse(feats, nNoiseFrames)
  IN  IF feats = <<>>
      THEN [err |-> TypeError, value |-> <<>>]
      ELSE [err |-> "",
            value |-> [j \in 1..Len(feats[1]) |->
                         Div(VarianceSum(feats, j, numFramesToUse),
                             Num(numFramesToUse))]]

\* estimateNoiseVariance: [err, value]
EstimateNoiseVariance(feats, nNoiseFrames) ==
  LET numFramesToUse == NumFramesToUse(feats, nNoiseFrames)
  IN  IF numFramesToUse = 0
      THEN [err |-> NoFramesError, value |-> <<>>]
      ELSE [err |-> "",
            value |-> [j \in 1..Len(feats[1]) |->
                         Div(VarianceSum(feats, j, numFramesToUse),
                             Num(numFramesToUse))]]

\* sigmaN[j] || Number.EPSILON
NoiseDivisor(noise, j) == OrElse(noise[j], EPSILON)

\* the initial estimate without the rectification max(., 0)
InitialXiUnrectified(firstFrame, noise) ==
  [j \in 1..Len(firstFrame) |->
     Sub(Div(Pow2(firstFrame[j]), NoiseDivisor(noise, j)), One)]

\* estimatePrioriSNR: the initial estimate
InitialXi(firstFrame, noise) ==
  [j \in 1..Len(firstFrame) |->
     LET gamma == Div(Pow2(firstFrame[j]), NoiseDivisor(noise, j))
     IN  MathMax(Sub(gamma, One), Zero)]

\* estimatePrioriSNR: newXi of one of the remaining frames
NextXi(frame, prevXi, noise, alpha) ==
  [j \in 1..Len(frame) |->
     LET sigmaNJ == NoiseDivisor(noise, j)
         ampPrev == Sqrt(Mul(prevXi[j], sigmaNJ))
         gammaCurrent == Div(Pow2(frame[j]), sigmaNJ)
     IN  Add(Mul(alpha, Div(Pow2(ampPrev), sigmaNJ)),
             Mul(Sub(One, alpha), MathMax(Sub(gammaCurrent, One), Zero)))]

RECURSIVE XiLoop(_, _, _, _)
XiLoop(feats, noise, alpha, acc) ==
  IF Len(acc) >= Len(feats) THEN acc
  ELSE XiLoop(feats, noise, alpha,
         Append(acc, NextXi(feats[Len(acc) + 1], acc[Len(acc)], noise, alpha)))

\* estimatePrioriSNR: [err, value]; features[0] of an empty list is undefined
EstimatePrioriSNR(feats, noise, alpha) ==
  IF feats = <<>> THEN [err |-> TypeError, value |-> <<>>]
  ELSE [err |-> "",
        value |-> XiLoop(feats, noise, alpha, <<InitialXi(feats[1], noise)>>)]

\* the divisors estimatePrioriSNR divides by
SNRDivisors(feats, noise) ==
  {NoiseDivisor(noise, j) : j \in 1..(IF feats = <<>> THEN 0 ELSE Len(feats[1]))}

\* xiJ with the substitution applied to sigmaS as well
BinXiJSubstituted(xiM, noise, j) ==
  Div(Mul(xiM[j], NoiseDivisor(noise, j)), NoiseDivisor(noise, j))

\* detectSpeech, inner loop: xiJ of bin j
BinXiJ(xiM, noise, j) == Div(Mul(xiM[j], noise[j]), NoiseDivisor(noise, j))

\* detectSpeech, inner loop: Math.max(L, Number.EPSILON) of bin j
BinLogArgument(frame, xiM, noise, j) ==
  LET gamma == Div(Pow2(frame[j]), NoiseDivisor(noise, j))
      xiJ == BinXiJ(xiM, noise, j)
      L == Scale(Div(One, Add(One, xiJ)),
                 Exp(Div(Mul(gamma, xiJ), Add(One, xiJ))))
  IN  MathMaxExp(L, EPSILON)

RECURSIVE SumLogL(_, _, _, _)
SumLogL(frame, xiM, noise, j) ==
  IF j = 0 THEN ZeroLog
  ELSE AddLog(SumLogL(frame, xiM, noise, j - 1),
              Log(BinLogArgument(frame, xiM, noise, j)))

\* detectSpeech, outer loop body: avgLogL of frame m
AvgLogL(frame, xiM, noise) ==
  DivLog(SumLogL(frame, xiM, noise, Len(frame)), Len(frame))

\* the comparison with >= for >
IsSpeechOrEqual(avgLogL, thr) ==
  LET b == Log(ToExp(thr))
  IN  (~IsNaN(avgLogL.ln)) /\ (~IsNaN(b.ln)) /\ ~GtLog(b, avgLogL)

\* detectSpeech: avgLogL > Math.log(threshold)
IsSpeech(avgLogL, thr) == GtLog(avgLogL, Log(ToExp(thr)))

\* the divisors of one pass of the outer loop
DecisionDivisors(frame, xiM, noise) ==
  {NoiseDivisor(noise, j) : j \in 1..Len(frame)}
  \cup {Add(One, BinXiJ(xiM, noise, j)) : j \in 1..Len(frame)}
  \cup {Num(Len(frame))}

\* the arguments of Math.log of one pass of the outer loop
DecisionLogArguments(frame, xiM, noise) ==
  {BinLogArgument(frame, xiM, noise, j) : j \in 1..Len(frame)}

\***************************************************************************
\* State
\***************************************************************************
VARIABLES
  pc,             \* position of the run: new, failed, idle, decode, frameSignal,
                  \* framing, extract, noise, snr, decide, done, error
  frameLength,    \* this.frameLength
  hopLength,      \* this.hopLength
  fftSize,        \* this.fft.size (0: no transform constructed)
  fftHigh,        \* this.fft.size is fftSize + fftHigh * 2^32
  file,           \* detectSpeech: file
  threshold,      \* detectSpeech: threshold
  audio,          \* detectSpeech: audio
  i,              \* frameSignal: i
  frames,         \* frameSignal: frames
  features,       \* detectSpeech: features
  sigmaN,         \* detectSpeech: sigmaN
  xi,             \* detectSpeech: xi
  m,              \* detectSpeech: m
  logLikelihood,  \* detectSpeech: logLikelihood
  speechFrames,   \* detectSpeech: speechFrames
  err,            \* message of the error thrown, "" if none
  winDivisors,    \* divisors applyWindow has divided by in this run
  divisors,       \* divisors estimatePrioriSNR and the decision loop have divided by
  logArgs,        \* arguments the decision loop has passed to Math.log
  args,           \* arguments of the last direct call of a method
  ret,            \* what that call returned: [err, value]
  heap,           \* the typed arrays allocated so far; an address is an index
  audioRef,       \* address of the array getAudioData returned (0: none)
  frameRefs,      \* addresses of the frames frameSignal has pushed
  windowedRefs,   \* addresses of the frames applyWindow has returned
  sampleRate,     \* this.sampleRate
  cosTable,       \* this.fft.cosTable
  sinTable,       \* this.fft.sinTable
  calls,          \* the detectSpeech calls in flight on the one instance
  variant,        \* App: 1 with the regular and the fast detector, 2 with one
  appFile,        \* App: file (its name, "" for null)
  isProcessing,   \* App: isProcessing
  error,          \* App: error ("" for null)
  regularResults, \* App: regularResults; results in variant 2
  fastResults,    \* App: fastResults
  regularDetectorRef, \* App: regularDetectorRef.current is set; detectorRef in variant 2
  fastDetectorRef,    \* App: fastDetectorRef.current is set
  runs            \* App: the calls of handleFileChange made so far

vars == <<pc, frameLength, hopLength, fftSize, fftHigh, file, threshold, audio, i, frames,
          features, sigmaN, xi, m, logLikelihood, speechFrames, err, winDivisors,
          divisors, logArgs, args, ret, heap, audioRef, frameRefs,
          windowedRefs, sampleRate, cosTable, sinTable, calls, variant,
          appFile, isProcessing, error, regularResults, fastResults,
          regularDetectorRef, fastDetectorRef, runs>>

fields == <<frameLength, hopLength, fftSize, fftHigh>>

locals == <<audio, i, frames, features, sigmaN, xi, m, logLikelihood, speechFrames>>

ghosts == <<winDivisors, divisors, logArgs>>

memory == <<heap, audioRef, frameRefs, windowedRefs>>

\* the state and refs of the App component
app == <<variant, appFile, isProcessing, error, regularResults, fastResults,
         regularDetectorRef, fastDetectorRef, runs>>

\* the fields the pipeline never reads, and the calls sharing the instance
shared == <<sampleRate, cosTable, sinTable, calls>>

\* what a detection run on values, the transform on its own and the direct
\* calls leave alone
outside == <<memory, shared, app>>

NoMemory ==
  /\ heap = <<>>
  /\ audioRef = 0
  /\ frameRefs = <<>>
  /\ windowedRefs = <<>>

\* the tables and concurrent calls are not followed
NoShared ==
  /\ sampleRate = 0
  /\ cosTable = <<>>
  /\ sinTable = <<>>
  /\ calls = <<>>

\* null results
NullResults == [present |-> FALSE, file |-> ""]

\* the component is not mounted
NoApp ==
  /\ variant = 0
  /\ appFile = ""
  /\ isProcessing = FALSE
  /\ error = ""
  /\ regularResults = NullResults
  /\ fastResults = NullResults
  /\ regularDetectorRef = FALSE
  /\ fastDetectorRef = FALSE
  /\ runs = <<>>

OutsideInit == NoMemory /\ NoShared /\ NoApp

NoFile == [isAudio |-> FALSE, decodes |-> FALSE, samples |-> <<>>]

NoRet == [err |-> "", value |-> <<>>]

\* the files offered to detectSpeech
Files ==
  {NoFile, [isAudio |-> TRUE, decodes |-> FALSE, samples |-> <<>>]}
  \cup {[isAudio |-> TRUE, decodes |-> TRUE, samples |-> s] :
          s \in SeqsUpTo(Samples, MaxLen)}

\* the thresholds offered to detectSpeech
Thresholds == {Num(-1), Zero, DefaultThreshold, Num(2)}

\* the frame lengths and hop lengths offered to the constructor
FrameLengths == (0 - 1)..MaxSize

HopLengths == (0 - 1)..MaxHop

Init ==
  /\ pc = "new"
  /\ frameLength = 0
  /\ hopLength = 0
  /\ fftSize = 0
  /\ fftHigh = 0
  /\ file = NoFile
  /\ threshold = DefaultThreshold
  /\ audio = <<>>
  /\ i = 0
  /\ frames = <<>>
  /\ features = <<>>
  /\ sigmaN = <<>>
  /\ xi = <<>>
  /\ m = 0
  /\ logLikelihood = <<>>
  /\ speechFrames = <<>>
  /\ err = ""
  /\ winDivisors = {}
  /\ divisors = {}
  /\ logArgs = {}
  /\ args = <<>>
  /\ ret = NoRet
  /\ OutsideInit

\***************************************************************************
\* Operations of a detection run
\***************************************************************************
\* constructor(frameLength, hopLength): new FFT(frameLength) may throw
Constructor(fl, hl) ==
  /\ pc = "new"
  /\ args' = <<fl, hl>>
  /\ IF FFTRejects(fl, 0)
     THEN /\ pc' = "failed"
          /\ err' = ConfigError
          /\ UNCHANGED fields
     ELSE /\ pc' = "idle"
          /\ frameLength' = fl
          /\ hopLength' = hl
          /\ fftSize' = fl
          /\ fftHigh' = 0
          /\ err' = ""
  /\ UNCHANGED <<file, threshold, locals, ghosts, ret>>
  /\ UNCHANGED outside

\* detectSpeech(file, threshold) up to its first await
DetectSpeech(f, thr) ==
  /\ pc \in {"idle", "done", "error"}
  /\ file' = f
  /\ threshold' = thr
  /\ audio' = <<>>
  /\ i' = 0
  /\ frames' = <<>>
  /\ features' = <<>>
  /\ sigmaN' = <<>>
  /\ xi' = <<>>
  /\ m' = 0
  /\ logLikelihood' = <<>>
  /\ speechFrames' = <<>>
  /\ winDivisors' = {}
  /\ divisors' = {}
  /\ logArgs' = {}
  /\ IF f.isAudio
     THEN pc' = "decode" /\ err' = ""
     ELSE pc' = "error" /\ err' = NotAudioError
  /\ UNCHANGED <<fields, args, ret>>
  /\ UNCHANGED outside

\* getAudioData: the decoded first channel, or the decoding error
GetAudioData ==
  /\ pc = "decode"
  /\ IF file.decodes
     THEN /\ audio' = ToFloats(file.samples)
          /\ pc' = "frameSignal"
          /\ err' = ""
     ELSE /\ pc' = "error"
          /\ err' = DecodeError
          /\ UNCHANGED audio
  /\ UNCHANGED <<fields, file, threshold, i, frames, features, sigmaN, xi, m,
                 logLikelihood, speechFrames, ghosts, args, ret>>
  /\ UNCHANGED outside

\* frameSignal: the length check and the loop's initialisation
FrameSignalEnter ==
  /\ pc = "frameSignal"
  /\ IF FrameSignalThrows(audio, frameLength)
     THEN pc' = "error" /\ err' = TooShortError
     ELSE pc' = "framing" /\ err' = ""
  /\ i' = 0
  /\ frames' = <<>>
  /\ UNCHANGED <<fields, file, threshold, audio, features, sigmaN, xi, m,
                 logLikelihood, speechFrames, ghosts, args, ret>>
  /\ UNCHANGED outside

\* frameSignal: one pass of the loop.  With hopLength <= 0 the loop does not
\* end; the model follows it for MaxFrames passes.
FrameSignalStep ==
  /\ pc = "framing"
  /\ FrameLoopContinues(audio, frameLength, i)
  /\ hopLength > 0 \/ Len(frames) < MaxFrames
  /\ frames' = Append(frames, Slice(audio, i, i + frameLength))
  /\ i' = i + hopLength
  /\ UNCHANGED <<pc, fields, file, threshold, audio, features, sigmaN, xi, m,
                 logLikelihood, speechFrames, err, ghosts, args, ret>>
  /\ UNCHANGED outside

\* frameSignal: the loop ends and the frames are returned
FrameSignalReturn ==
  /\ pc = "framing"
  /\ ~FrameLoopContinues(audio, frameLength, i)
  /\ pc' = "extract"
  /\ UNCHANGED <<fields, file, threshold, locals, err, ghosts, args, ret>>
  /\ UNCHANGED outside

\* extractDFTFeatures(frames)
ExtractFeatures ==
  /\ pc = "extract"
  /\ LET r == ExtractDFTFeatures(frames, frameLength, fftSize)
     IN  /\ features' = r.value
         /\ err' = r.err
         /\ pc' = IF r.err = "" THEN "noise" ELSE "error"
  /\ winDivisors' = winDivisors
                    \cup UNION {WindowDivisors(frames[k]) : k \in 1..Len(frames)}
  /\ UNCHANGED <<fields, file, threshold, audio, i, frames, sigmaN, xi, m,
                 logLikelihood, speechFrames, divisors, logArgs, args, ret>>
  /\ UNCHANGED outside

\* estimateNoiseVariance(features)
EstimateNoise ==
  /\ pc = "noise"
  /\ LET r == EstimateNoiseVariance(features, NNoiseFrames)
     IN  /\ sigmaN' = r.value
         /\ err' = r.err
         /\ pc' = IF r.err = "" THEN "snr" ELSE "error"
  /\ UNCHANGED <<fields, file, threshold, audio, i, frames, features, xi, m,
                 logLikelihood, speechFrames, ghosts, args, ret>>
  /\ UNCHANGED outside

\* estimatePrioriSNR(features, sigmaN)
EstimateSNR ==
  /\ pc = "snr"
  /\ LET r == EstimatePrioriSNR(features, sigmaN, ALPHA)
     IN  /\ xi' = r.value
         /\ err' = r.err
         /\ pc' = IF r.err = "" THEN "decide" ELSE "error"
  /\ divisors' = divisors \cup SNRDivisors(features, sigmaN)
  /\ m' = 0
  /\ UNCHANGED <<fields, file, threshold, audio, i, frames, features, sigmaN,
                 logLikelihood, speechFrames, winDivisors, logArgs, args, ret>>
  /\ UNCHANGED outside

\* detectSpeech: one pass of the loop over the frames
DecideStep ==
  /\ pc = "decide"
  /\ m < Len(features)
  /\ LET avgLogL == AvgLogL(features[m + 1], xi[m + 1], sigmaN)
     IN  /\ logLikelihood' = Append(logLikelihood, avgLogL)
         /\ speechFrames' = Append(speechFrames, IsSpeech(avgLogL, threshold))
  /\ divisors' = divisors \cup DecisionDivisors(features[m + 1], xi[m + 1], sigmaN)
  /\ logArgs' = logArgs \cup DecisionLogArguments(features[m + 1], xi[m + 1], sigmaN)
  /\ m' = m + 1
  /\ UNCHANGED <<pc, fields, file, threshold, audio, i, frames, features, sigmaN,
                 xi, err, winDivisors, args, ret>>
  /\ UNCHANGED outside

\* detectSpeech: return { speechFrames, logLikelihood }
DecideReturn ==
  /\ pc = "decide"
  /\ m >= Len(features)
  /\ pc' = "done"
  /\ UNCHANGED <<fields, file, threshold, locals, err, ghosts, args, ret>>
  /\ UNCHANGED outside

Next ==
  \/ \E fl \in FrameLengths, hl \in HopLengths : Constructor(fl, hl)
  \/ \E f \in Files, thr \in Thresholds : DetectSpeech(f, thr)
  \/ GetAudioData
  \/ FrameSignalEnter
  \/ FrameSignalStep
  \/ FrameSignalReturn
  \/ ExtractFeatures
  \/ EstimateNoise
  \/ EstimateSNR
  \/ DecideStep
  \/ DecideReturn

Spec == Init /\ [][Next]_vars

\***************************************************************************
\* The transform on its own: new FFT(size), then forward(input) any number
\* of times.  pc: new, failed, fft (constructed), forwarded (forward called)
\***************************************************************************
FFTSizes == (0 - 2)..MaxSize

\* 0: the sizes above; 1: the same plus 2^32
FFTHighs == {0, 1}

FFTInputs == {ToFloats(s) : s \in SeqsUpTo(FFTSamples, MaxIn)}

\* new FFT(size) for the number size + high * 2^32.  The two arrays of a
\* size of 2^32 or more (16 GiB each) are allocated or not, as the engine
\* and the memory allow.
FFTNew(size, high) ==
  /\ pc = "new"
  /\ args' = <<size, high>>
  /\ IF FFTRejects(size, high)
     THEN pc' = "failed" /\ err' = ConfigError /\ UNCHANGED <<fftSize, fftHigh>>
     ELSE \E allocated \in (IF high = 0 THEN {TRUE} ELSE BOOLEAN) :
            IF allocated
            THEN pc' = "fft" /\ err' = "" /\ fftSize' = size /\ fftHigh' = high
            ELSE pc' = "failed" /\ err' = RangeError
                 /\ UNCHANGED <<fftSize, fftHigh>>
  /\ UNCHANGED <<frameLength, hopLength, file, threshold, locals, ghosts, ret>>
  /\ UNCHANGED outside

\* fft.forward(input); a throw leaves the transform usable.  No input of
\* the model has the length of a size of 2^32 or more.
FFTForward(input) ==
  /\ pc \in {"fft", "forwarded"}
  /\ args' = <<input>>
  /\ ret' = IF fftHigh # 0 THEN [err |-> SizeError, value |-> <<>>]
             ELSE Forward(input, fftSize)
  /\ pc' = "forwarded"
  /\ UNCHANGED <<fields, file, threshold, locals, err, ghosts>>
  /\ UNCHANGED outside

NextFFT ==
  \/ \E size \in FFTSizes, high \in FFTHighs : FFTNew(size, high)
  \/ \E input \in FFTInputs : FFTForward(input)

SpecFFT == Init /\ [][NextFFT]_vars

\***************************************************************************
\* The private methods called directly on arguments of the caller's choice.
\* pc: call (arguments chosen), returned
\***************************************************************************
MaxSpectra == 3
MaxNoiseFrames == 3

BinCounts == {1, 2}

\* magnitudes 0, 1, sqrt(2) and 2
Magnitudes == {Sqrt(Zero), Sqrt(One), Sqrt(Num(2)), Sqrt(Num(4))}

\* lists of lo..hi spectra of the same number of bins
SpectraLists(lo, hi) ==
  UNION {[1..k -> [1..b -> Magnitudes]] : k \in lo..hi, b \in BinCounts}

InitCall(a) ==
  /\ pc = "call"
  /\ args = a
  /\ frameLength = 0
  /\ hopLength = 0
  /\ fftSize = 0
  /\ fftHigh = 0
  /\ file = NoFile
  /\ threshold = DefaultThreshold
  /\ audio = <<>>
  /\ i = 0
  /\ frames = <<>>
  /\ features = <<>>
  /\ sigmaN = <<>>
  /\ xi = <<>>
  /\ m = 0
  /\ logLikelihood = <<>>
  /\ speechFrames = <<>>
  /\ err = ""
  /\ winDivisors = {}
  /\ divisors = {}
  /\ logArgs = {}
  /\ ret = NoRet
  /\ OutsideInit

\* estimateNoiseVariance(features, nNoiseFrames)
InitNoise ==
  \E feats \in SpectraLists(0, MaxSpectra), n \in 0..MaxNoiseFrames :
    InitCall(<<feats, n>>)

EstimateNoiseVarianceCall ==
  /\ pc = "call"
  /\ ret' = EstimateNoiseVariance(args[1], args[2])
  /\ pc' = "returned"
  /\ UNCHANGED <<fields, file, threshold, locals, err, ghosts, args>>
  /\ UNCHANGED outside

SpecNoise == InitNoise /\ [][EstimateNoiseVarianceCall]_vars

\* estimatePrioriSNR(features, sigmaN, alpha)
NoisePowers == {Zero, Half, One, Num(2)}

Alphas == {Half, ALPHA}

InitSNR ==
  \E feats \in SpectraLists(1, MaxSpectra - 1), alpha \in Alphas :
    \E noise \in [1..Len(feats[1]) -> NoisePowers] :
      InitCall(<<feats, noise, alpha>>)

EstimatePrioriSNRCall ==
  /\ pc = "call"
  /\ ret' = EstimatePrioriSNR(args[1], args[2], args[3])
  /\ pc' = "returned"
  /\ UNCHANGED <<fields, file, threshold, locals, err, ghosts, args>>
  /\ UNCHANGED outside

SpecSNR == InitSNR /\ [][EstimatePrioriSNRCall]_vars

\***************************************************************************
\* The decision loop of detectSpeech (lines 117-139) on spectra, SNR vectors,
\* a noise power vector and a threshold of the caller's choice: every
\* combination of the values below, those the two estimators produce and
\* others.  pc: decide, done
\***************************************************************************
MaxDecided == 2

\* one bin of one frame: its magnitude (0 or sqrt(2)) and its xi.  An xi of
\* Infinity is what a Float32Array element holds after a value beyond the
\* float32 range was stored in it.
DecideCells ==
  {<<Sqrt(Zero), Zero>>, <<Sqrt(Zero), One>>,
   <<Sqrt(Num(2)), One>>, <<Sqrt(Num(2)), Infinity>>}

DecideNoisePowers == {Zero, One}

DecideThresholds == Thresholds \cup {One}

InitDecide ==
  /\ pc = "decide"
  /\ \E k \in 1..MaxDecided, b \in BinCounts :
       /\ \E cells \in [1..k -> [1..b -> DecideCells]] :
            /\ features = [f \in 1..k |-> [j \in 1..b |-> cells[f][j][1]]]
            /\ xi = [f \in 1..k |-> [j \in 1..b |-> cells[f][j][2]]]
       /\ sigmaN \in [1..b -> DecideNoisePowers]
  /\ threshold \in DecideThresholds
  /\ frameLength = 0
  /\ hopLength = 0
  /\ fftSize = 0
  /\ fftHigh = 0
  /\ file = NoFile
  /\ audio = <<>>
  /\ i = 0
  /\ frames = <<>>
  /\ m = 0
  /\ logLikelihood = <<>>
  /\ speechFrames = <<>>
  /\ err = ""
  /\ winDivisors = {}
  /\ divisors = {}
  /\ logArgs = {}
  /\ args = <<>>
  /\ ret = NoRet
  /\ OutsideInit

NextDecide ==
  \/ DecideStep
  \/ DecideReturn

SpecDecide == InitDecide /\ [][NextDecide]_vars

\***************************************************************************
\* frameSignal, applyWindow, FFT.forward and extractDFTFeatures on typed
\* arrays in memory.  heap[a] is the content of the array at address a; a
\* call reads its arguments from the heap and writes where the code writes.
\* pc: frameSignal, framing, window, forward, done, error
\***************************************************************************
\* the address of the next array allocated
Fresh(h) == Len(h) + 1

\* new Float32Array(n)
Zeros(n) == [k \in 1..n |-> Zero]

\* the heap with the array at address a set to arr; a = Fresh(h) allocates
Put(h, a, arr) == IF a > Len(h) THEN Append(h, arr) ELSE [h EXCEPT ![a] = arr]

\* a map that writes its result over the frame it reads
MapTargetInPlace(h, frameRef) == frameRef

\* applyWindow: frame.map returns a new array
MapTarget(h, frameRef) == Fresh(h)

\* applyWindow(frame): [heap, ref]
ApplyWindowMem(h, frameRef) ==
  LET len == Len(h[frameRef])
      windowRef == Fresh(h)
      h1 == Put(h, windowRef, [k \in 1..len |-> HannCoefficient(k - 1, len)])
      target == MapTarget(h1, frameRef)
      h2 == Put(h1, target,
                [k \in 1..len |-> Mul(h1[frameRef][k], h1[windowRef][k])])
  IN  [heap |-> h2, ref |-> target]

\* FFT.forward(input) for an input of the right length: [heap, ref].  The
\* only element writes are to real, imag and magnitude, the three arrays the
\* call allocates; input is read from the heap.
ForwardMem(h, inputRef, size) ==
  LET realRef == Len(h) + 1
      imagRef == Len(h) + 2
      magnitudeRef == Len(h) + 3
      real == [k \in 1..size |->
                 ForwardReal(h[inputRef], size, k - 1, 0,
                             ForwardRealInit(h[inputRef], k - 1))]
      imag == [k \in 1..size |->
                 ForwardImag(h[inputRef], size, k - 1, 0, Zeros(size)[k])]
      magnitude == [k \in 1..size |->
                      Sqrt(Add(Mul(real[k], real[k]), Mul(imag[k], imag[k])))]
  IN  [heap |-> h \o <<real, imag, magnitude>>, ref |-> magnitudeRef]

\* the detectors the constructor accepts, with a hop that advances
MemoryFrameLengths == {fl \in FrameLengths : ~FFTRejects(fl, 0)}

\* after getAudioData has returned the decoded samples
InitMemory ==
  /\ pc = "frameSignal"
  /\ frameLength \in MemoryFrameLengths
  /\ hopLength \in 1..MaxHop
  /\ fftSize = frameLength
  /\ fftHigh = 0
  /\ file \in {f \in Files : f.isAudio /\ f.decodes}
  /\ threshold = DefaultThreshold
  /\ audio = ToFloats(file.samples)
  /\ heap = <<ToFloats(file.samples)>>
  /\ audioRef = 1
  /\ frameRefs = <<>>
  /\ windowedRefs = <<>>
  /\ NoShared
  /\ NoApp
  /\ i = 0
  /\ frames = <<>>
  /\ features = <<>>
  /\ sigmaN = <<>>
  /\ xi = <<>>
  /\ m = 0
  /\ logLikelihood = <<>>
  /\ speechFrames = <<>>
  /\ err = ""
  /\ winDivisors = {}
  /\ divisors = {}
  /\ logArgs = {}
  /\ args = <<>>
  /\ ret = NoRet

\* frameSignal(audio): the length check
MemFrameSignalEnter ==
  /\ pc = "frameSignal"
  /\ IF FrameSignalThrows(heap[audioRef], frameLength)
     THEN pc' = "error" /\ err' = TooShortError
     ELSE pc' = "framing" /\ err' = ""
  /\ UNCHANGED <<fields, file, threshold, locals, ghosts, args, ret, memory, shared, app>>

\* frameSignal: one pass of the loop; slice allocates the frame
MemFrameSignalStep ==
  /\ pc = "framing"
  /\ FrameLoopContinues(heap[audioRef], frameLength, i)
  /\ LET frame == Slice(heap[audioRef], i, i + frameLength)
     IN  /\ frameRefs' = Append(frameRefs, Fresh(heap))
         /\ heap' = Put(heap, Fresh(heap), frame)
         /\ frames' = Append(frames, frame)
  /\ i' = i + hopLength
  /\ UNCHANGED <<pc, fields, file, threshold, audio, features, sigmaN, xi, m,
                 logLikelihood, speechFrames, err, ghosts, args, ret, audioRef,
                 windowedRefs, shared, app>>

\* frameSignal returns; extractDFTFeatures starts its map over the frames
MemFrameSignalReturn ==
  /\ pc = "framing"
  /\ ~FrameLoopContinues(heap[audioRef], frameLength, i)
  /\ pc' = "window"
  /\ m' = 0
  /\ UNCHANGED <<fields, file, threshold, audio, i, frames, features, sigmaN, xi,
                 logLikelihood, speechFrames, err, ghosts, args, ret, memory, shared, app>>

\* extractDFTFeatures: this.applyWindow(frame) for frame m
MemApplyWindow ==
  /\ pc = "window"
  /\ m < Len(frameRefs)
  /\ LET r == ApplyWindowMem(heap, frameRefs[m + 1])
     IN  /\ heap' = r.heap
         /\ windowedRefs' = Append(windowedRefs, r.ref)
  /\ pc' = "forward"
  /\ UNCHANGED <<fields, file, threshold, locals, err, ghosts, args, ret,
                 audioRef, frameRefs, shared, app>>

\* extractDFTFeatures: this.fft.forward(windowedFrame), dft.slice and the
\* copy into a new Float32Array, for frame m
MemForward ==
  /\ pc = "forward"
  /\ LET r == ForwardMem(heap, windowedRefs[m + 1], fftSize)
         sliced == Slice(r.heap[r.ref], 0, SpectrumLength(frameLength))
         h1 == Put(r.heap, Fresh(r.heap), sliced)
         h2 == Put(h1, Fresh(h1), h1[Len(h1)])
     IN  /\ heap' = h2
         /\ features' = Append(features, h2[Len(h2)])
  /\ m' = m + 1
  /\ pc' = "window"
  /\ UNCHANGED <<fields, file, threshold, audio, i, frames, sigmaN, xi,
                 logLikelihood, speechFrames, err, ghosts, args, ret, audioRef,
                 frameRefs, windowedRefs, shared, app>>

\* extractDFTFeatures returns
MemExtractReturn ==
  /\ pc = "window"
  /\ m >= Len(frameRefs)
  /\ pc' = "done"
  /\ UNCHANGED <<fields, file, threshold, locals, err, ghosts, args, ret, memory, shared, app>>

NextMemory ==
  \/ MemFrameSignalEnter
  \/ MemFrameSignalStep
  \/ MemFrameSignalReturn
  \/ MemApplyWindow
  \/ MemForward
  \/ MemExtractReturn

SpecMemory == InitMemory /\ [][NextMemory]_vars

\***************************************************************************
\* Two detectSpeech calls on one instance.  A call yields only at the two
\* awaits of getAudioData; everything after the second runs without
\* yielding.  calls[id].pc: none, arrayBuffer (awaiting file.arrayBuffer()),
\* decodeAudioData (awaiting decodeAudioData), settled, hung
\***************************************************************************
MaxCallLen == 3

DefaultSampleRate == 16000

CallIds == {"a", "b"}

\* frameSignal with a hop that advances: the frames pushed from index idx on
RECURSIVE FrameSignalFrom(_, _, _, _)
FrameSignalFrom(signal, frameLen, hop, idx) ==
  IF ~FrameLoopContinues(signal, frameLen, idx) THEN <<>>
  ELSE <<Slice(signal, idx, idx + frameLen)>>
       \o FrameSignalFrom(signal, frameLen, hop, idx + hop)

\* frameSignal does not return: the loop is entered and i does not advance
FrameSignalHangs(signal, frameLen, hop) ==
  /\ ~FrameSignalThrows(signal, frameLen)
  /\ hop <= 0
  /\ FrameLoopContinues(signal, frameLen, 0)

\* what a call settles with
Rejected(e) == [err |-> e, speechFrames |-> <<>>, logLikelihood |-> <<>>]

\* detectSpeech: the loop over the frames and the returned object
DecideAll(feats, xis, noise, thr) ==
  LET avg == [k \in 1..Len(feats) |-> AvgLogL(feats[k], xis[k], noise)]
  IN  [err |-> "",
       speechFrames |-> [k \in 1..Len(feats) |-> IsSpeech(avg[k], thr)],
       logLikelihood |-> avg]

\* detectSpeech from the return of getAudioData to its end, for a
\* frameSignal that returns
DetectSpeechRest(signal, thr, frameLen, hop, size) ==
  IF FrameSignalThrows(signal, frameLen) THEN Rejected(TooShortError)
  ELSE
    LET fe == ExtractDFTFeatures(FrameSignalFrom(signal, frameLen, hop, 0),
                                 frameLen, size)
    IN  IF fe.err # "" THEN Rejected(fe.err)
        ELSE
          LET nv == EstimateNoiseVariance(fe.value, NNoiseFrames)
          IN  IF nv.err # "" THEN Rejected(nv.err)
              ELSE
                LET sn == EstimatePrioriSNR(fe.value, nv.value, ALPHA)
                IN  IF sn.err # "" THEN Rejected(sn.err)
                    ELSE DecideAll(fe.value, sn.value, nv.value, thr)

\* the buffer of whichever call is decoding
DecodedBufferOfAny(cs, id) ==
  LET others == {o \in CallIds : o # id /\ cs[o].pc = "decodeAudioData"}
  IN  IF others = {} THEN cs[id].arrayBuffer
      ELSE cs[CHOOSE o \in others : TRUE].arrayBuffer

\* getAudioData: decodeAudioData(arrayBuffer) decodes the call's own buffer
DecodedBuffer(cs, id) == cs[id].arrayBuffer

\* the tables the FFT constructor fills
CosTableOf(size) == [k \in 1..size |-> CosTurn(Norm(k - 1, size))]

SinTableOf(size) == [k \in 1..size |-> SinTurn(Norm(k - 1, size))]

NoCall ==
  [pc |-> "none", file |-> NoFile, threshold |-> DefaultThreshold,
   arrayBuffer |-> <<>>, result |-> Rejected(""), overlapped |-> FALSE]

InFlight(c) == c.pc \in {"arrayBuffer", "decodeAudioData"}

\* a frameSignal that does not return keeps the thread
ThreadFree == \A id \in CallIds : calls[id].pc # "hung"

\* the files and thresholds the two calls are given
CallFiles == {f \in Files : Len(f.samples) <= MaxCallLen}

CallThresholds == {DefaultThreshold, Num(2)}

\* a constructed detector, no call made yet
InitShared ==
  /\ pc = "idle"
  /\ frameLength \in MemoryFrameLengths
  /\ hopLength \in HopLengths
  /\ fftSize = frameLength
  /\ fftHigh = 0
  /\ args = <<frameLength, hopLength>>
  /\ sampleRate = DefaultSampleRate
  /\ cosTable = CosTableOf(frameLength)
  /\ sinTable = SinTableOf(frameLength)
  /\ calls = [id \in CallIds |-> NoCall]
  /\ file = NoFile
  /\ threshold = DefaultThreshold
  /\ audio = <<>>
  /\ i = 0
  /\ frames = <<>>
  /\ features = <<>>
  /\ sigmaN = <<>>
  /\ xi = <<>>
  /\ m = 0
  /\ logLikelihood = <<>>
  /\ speechFrames = <<>>
  /\ err = ""
  /\ winDivisors = {}
  /\ divisors = {}
  /\ logArgs = {}
  /\ ret = NoRet
  /\ NoMemory
  /\ NoApp

\* what no call on the instance assigns
instance == <<pc, fields, file, threshold, locals, err, ghosts, args, ret, memory,
              sampleRate, cosTable, sinTable, app>>

\* detectSpeech(file, threshold) up to the first await
CallDetectSpeech(id, f, thr) ==
  /\ ThreadFree
  /\ calls[id].pc = "none"
  /\ LET over == \E o \in CallIds : InFlight(calls[o])
         started == [NoCall EXCEPT !.file = f, !.threshold = thr,
                                   !.overlapped = over]
         marked == [o \in CallIds |->
                      IF InFlight(calls[o])
                      THEN [calls[o] EXCEPT !.overlapped = TRUE]
                      ELSE calls[o]]
     IN  calls' = [marked EXCEPT ![id] =
                     IF f.isAudio
                     THEN [started EXCEPT !.pc = "arrayBuffer"]
                     ELSE [started EXCEPT !.pc = "settled",
                                          !.result = Rejected(NotAudioError)]]
  /\ UNCHANGED instance

\* getAudioData: file.arrayBuffer() resolves; decodeAudioData is started
ArrayBufferResolves(id) ==
  /\ ThreadFree
  /\ calls[id].pc = "arrayBuffer"
  /\ calls' = [calls EXCEPT ![id].pc = "decodeAudioData",
                            ![id].arrayBuffer = calls[id].file.samples]
  /\ UNCHANGED instance

\* getAudioData: decodeAudioData settles, and the call runs to its end
DecodeSettles(id) ==
  /\ ThreadFree
  /\ calls[id].pc = "decodeAudioData"
  /\ LET signal == ToFloats(DecodedBuffer(calls, id))
     IN  calls' =
           [calls EXCEPT ![id] =
              IF ~calls[id].file.decodes
              THEN [@ EXCEPT !.pc = "settled", !.result = Rejected(DecodeError)]
              ELSE IF FrameSignalHangs(signal, frameLength, hopLength)
              THEN [@ EXCEPT !.pc = "hung"]
              ELSE [@ EXCEPT !.pc = "settled",
                             !.result = DetectSpeechRest(signal, calls[id].threshold,
                                                         frameLength, hopLength,
                                                         fftSize)]]
  /\ UNCHANGED instance

NextShared ==
  \/ \E id \in CallIds, f \in CallFiles, thr \in CallThresholds :
       CallDetectSpeech(id, f, thr)
  \/ \E id \in CallIds : ArrayBufferResolves(id)
  \/ \E id \in CallIds : DecodeSettles(id)

SpecShared == InitShared /\ [][NextShared]_vars

\***************************************************************************
\* The App component: its state, the file input, the drop area and the
\* calls of handleFileChange.  A call runs without yielding from one await
\* to the next.  runs[k].pc: regular (awaiting the regular detector),
\* fast (awaiting the fast detector), finished (past its finally block)
\***************************************************************************
MaxRuns == 2

\* the files the user offers: name, whether the type starts with audio/,
\* whether detectSpeech resolves on it
AppFiles ==
  {[name |-> "a", isAudio |-> TRUE, detects |-> TRUE],
   [name |-> "b", isAudio |-> TRUE, detects |-> TRUE],
   [name |-> "c", isAudio |-> TRUE, detects |-> FALSE],
   [name |-> "d", isAudio |-> FALSE, detects |-> FALSE]}

\* event.target.files?.[0] and e.dataTransfer.files[0] of an empty list
NoSelection == [name |-> "", isAudio |-> FALSE, detects |-> FALSE]

ProcessError == "Failed to process audio file. Please try again with a different file."

DropError == "Please drop an audio file."

\* the object handed to setRegularResults, setFastResults or setResults:
\* the frames and likelihoods detectSpeech returned for selectedFile
ResultsOf(selectedFile) == [present |-> TRUE, file |-> selectedFile.name]

\* a call of handleFileChange that has started and not reached finally
InProgress(run) == run.pc \in {"regular", "fast"}

\* the component as mounted
InitApp ==
  /\ variant \in {1, 2}
  /\ appFile = ""
  /\ isProcessing = FALSE
  /\ error = ""
  /\ regularResults = NullResults
  /\ fastResults = NullResults
  /\ regularDetectorRef = FALSE
  /\ fastDetectorRef = FALSE
  /\ runs = <<>>
  /\ pc = "new"
  /\ frameLength = 0
  /\ hopLength = 0
  /\ fftSize = 0
  /\ fftHigh = 0
  /\ file = NoFile
  /\ threshold = DefaultThreshold
  /\ audio = <<>>
  /\ i = 0
  /\ frames = <<>>
  /\ features = <<>>
  /\ sigmaN = <<>>
  /\ xi = <<>>
  /\ m = 0
  /\ logLikelihood = <<>>
  /\ speechFrames = <<>>
  /\ err = ""
  /\ winDivisors = {}
  /\ divisors = {}
  /\ logArgs = {}
  /\ args = <<>>
  /\ ret = NoRet
  /\ NoMemory
  /\ NoShared

\* what the component does not touch
detector == <<pc, fields, file, threshold, locals, err, ghosts, args, ret, memory,
              shared>>

\* handleFileChange(event) up to its first await
HandleFileChange(selectedFile) ==
  IF selectedFile = NoSelection
  THEN UNCHANGED app
  ELSE /\ appFile' = selectedFile.name
       /\ isProcessing' = TRUE
       /\ error' = ""
       /\ regularResults' = NullResults
       /\ fastResults' = NullResults
       /\ regularDetectorRef' = TRUE
       /\ fastDetectorRef' = (fastDetectorRef \/ variant = 1)
       /\ runs' = Append(runs, [pc |-> "regular", selectedFile |-> selectedFile])
       /\ UNCHANGED variant

\* the user picks a file in the dialog of the input, or none; a disabled
\* input opens no dialog
InputChange(selectedFile) ==
  /\ ~isProcessing
  /\ Len(runs) < MaxRuns
  /\ HandleFileChange(selectedFile)
  /\ UNCHANGED detector

\* handleDrop
HandleDrop(droppedFile) ==
  /\ Len(runs) < MaxRuns
  /\ IF droppedFile.isAudio
     THEN HandleFileChange(droppedFile)
     ELSE /\ error' = DropError
          /\ UNCHANGED <<variant, appFile, isProcessing, regularResults,
                         fastResults, regularDetectorRef, fastDetectorRef, runs>>
  /\ UNCHANGED detector

\* handleFileChange: the regular detector's detectSpeech(selectedFile)
\* settles.  Resolved: setRegularResults, then the fast detector is called
\* (variant 1) or the call ends (variant 2).  Rejected: catch and finally.
RegularSettles(k) ==
  /\ k \in 1..Len(runs)
  /\ runs[k].pc = "regular"
  /\ IF runs[k].selectedFile.detects
     THEN /\ regularResults' = ResultsOf(runs[k].selectedFile)
          /\ IF variant = 1
             THEN /\ runs' = [runs EXCEPT ![k].pc = "fast"]
                  /\ UNCHANGED isProcessing
             ELSE /\ runs' = [runs EXCEPT ![k].pc = "finished"]
                  /\ isProcessing' = FALSE
          /\ UNCHANGED error
     ELSE /\ error' = ProcessError
          /\ isProcessing' = FALSE
          /\ runs' = [runs EXCEPT ![k].pc = "finished"]
          /\ UNCHANGED regularResults
  /\ UNCHANGED <<variant, appFile, fastResults, regularDetectorRef, fastDetectorRef>>
  /\ UNCHANGED detector

\* handleFileChange: the fast detector's detectSpeech(selectedFile) settles.
\* Resolved: setFastResults and finally.  Rejected: catch and finally.
FastSettles(k, resolved) ==
  /\ k \in 1..Len(runs)
  /\ runs[k].pc = "fast"
  /\ IF resolved
     THEN /\ fastResults' = ResultsOf(runs[k].selectedFile)
          /\ UNCHANGED error
     ELSE /\ error' = ProcessError
          /\ UNCHANGED fastResults
  /\ isProcessing' = FALSE
  /\ runs' = [runs EXCEPT ![k].pc = "finished"]
  /\ UNCHANGED <<variant, appFile, regularResults, regularDetectorRef,
                 fastDetectorRef>>
  /\ UNCHANGED detector

NextApp ==
  \/ \E f \in AppFiles \cup {NoSelection} : InputChange(f)
  \/ \E f \in AppFiles \cup {NoSelection} : HandleDrop(f)
  \/ \E k \in 1..MaxRuns : RegularSettles(k)
  \/ \E k \in 1..MaxRuns, resolved \in BOOLEAN : FastSettles(k, resolved)

SpecApp == InitApp /\ [][NextApp]_vars

\***************************************************************************
\* Claims
\***************************************************************************
\* the frames of a signal: one at every offset 0, hop, 2*hop, ... that leaves
\* room for a whole frame
ExpectedFrameCount(len, frameLen, hop) == (len - frameLen) \div hop + 1

ExpectedFrames(signal, frameLen, hop) ==
  [k \in 1..ExpectedFrameCount(Len(signal), frameLen, hop) |->
     SubSeq(signal, (k - 1) * hop + 1, (k - 1) * hop + frameLen)]

\* C1: for a hop of at least 1, frameSignal returns exactly the frames at the
\* offsets 0, hop, 2*hop, ... with offset + frameLength <= signal.length, in
\* order: floor((L - F) / hop) + 1 >= 1 frames, and one frame when L = F.
C1_FrameSignalFrames ==
  (pc = "extract" /\ hopLength >= 1) =>
    /\ frames = ExpectedFrames(audio, frameLength, hopLength)
    /\ Len(frames) >= 1
    /\ (Len(audio) = frameLength => Len(frames) = 1)

\* C2: a run on a decoded signal returns a result with at least one frame or
\* fails with one of the two insufficient-data errors; the SNR estimation and
\* the decision loop never see an empty feature list, and the transform never
\* sees a frame of another length than its size.
C2_RunOutcome ==
  /\ pc = "done" =>
       (err = "" /\ Len(speechFrames) >= 1 /\ Len(logLikelihood) >= 1)
  /\ (pc = "error" /\ file.isAudio /\ file.decodes) =>
       err \in {TooShortError, NoFramesError}
  /\ pc \in {"snr", "decide", "done"} => Len(features) >= 1
  /\ pc \in {"extract", "noise", "snr", "decide", "done"} =>
       \A k \in 1..Len(frames) : Len(frames[k]) = fftSize
  /\ pc \in {"snr", "decide", "done"} =>
       \A k \in 1..Len(features) : Len(features[k]) = SpectrumLength(frameLength)

C2_Witness ==
  pc = "done" /\ Len(frames) >= 2 /\ Len(speechFrames) = Len(frames)

\* the discrete Fourier transform, squared magnitude of coefficient k
RECURSIVE DFTRe(_, _, _)
DFTRe(x, k, j) ==
  IF j = 0 THEN Zero
  ELSE Add(DFTRe(x, k, j - 1), Mul(x[j], CosTurn(Norm((j - 1) * k, Len(x)))))

RECURSIVE DFTIm(_, _, _)
DFTIm(x, k, j) ==
  IF j = 0 THEN Zero
  ELSE Sub(DFTIm(x, k, j - 1), Mul(x[j], SinTurn(Norm((j - 1) * k, Len(x)))))

DFTPower(x, k) ==
  LET re == DFTRe(x, k, Len(x))
      im == DFTIm(x, k, Len(x))
  IN  Add(Mul(re, re), Mul(im, im))

\* C3: forward returns |X[k]| for every k, X the discrete Fourier transform
\* of the input (stated on the squares of the magnitudes).
C3_ForwardIsDFT ==
  (pc = "forwarded" /\ ret.err = "") =>
    \A k \in 1..fftSize : Pow2(ret.value[k]) = DFTPower(args[1], k - 1)

IsPowerOfTwo(n) == \E k \in 0..(MaxSize + 1) : n = 2 ^ k

\* size + high * 2^32 is a power of two
IsPowerOfTwoWide(size, high) ==
  \/ high = 0 /\ IsPowerOfTwo(size)
  \/ size = 0 /\ IsPowerOfTwo(high)

\* C4: the constructor succeeds iff the integer size is a positive power of
\* two and fails with the configuration error otherwise; forward fails iff
\* the input's length is not the size, and otherwise returns that many
\* magnitudes.
C4_TransformErrors ==
  /\ pc = "failed" => (err = ConfigError /\ ~IsPowerOfTwoWide(args[1], args[2]))
  /\ pc \in {"fft", "forwarded"} =>
       (IsPowerOfTwoWide(fftSize, fftHigh) /\ err = "")
  /\ pc = "fft" => (fftSize = args[1] /\ fftHigh = args[2])
  /\ pc = "forwarded" =>
       /\ (ret.err # "") <=> (fftHigh # 0 \/ Len(args[1]) # fftSize)
       /\ ret.err # "" => ret.err = SizeError
       /\ ret.err = "" => Len(ret.value) = fftSize

\* C5: applyWindow returns a frame of the length of its input and never
\* divides by a zero L - 1, also for frames of length 1.
C5_ApplyWindowDivides ==
  pc \in {"noise", "snr", "decide", "done"} =>
    /\ \A k \in 1..Len(frames) : Len(ApplyWindow(frames[k])) = Len(frames[k])
    /\ 0 \notin winDivisors

NonSpeech(flags) == Cardinality({k \in 1..Len(flags) : ~flags[k]})

NonSpeechAt(lls, thr) == Cardinality({k \in 1..Len(lls) : ~IsSpeech(lls[k], thr)})

\* C6: with the log-likelihoods of a run fixed, a threshold at least as large
\* classifies at least as many frames non-speech, for every threshold, zero
\* and negative ones included.
C6_MonotonicThreshold ==
  pc = "done" =>
    \A t \in Thresholds :
      /\ Le(threshold, t) => NonSpeech(speechFrames) <= NonSpeechAt(logLikelihood, t)
      /\ Le(t, threshold) => NonSpeechAt(logLikelihood, t) <= NonSpeech(speechFrames)

\* C7: when the decision loop has run, the result has one log-likelihood and
\* one flag per frame (per spectrum), entry k of each is that of frame k, and
\* the flag is true iff the log-likelihood exceeds log(threshold).
C7_ResultPerFrame ==
  pc = "done" =>
    /\ Len(speechFrames) = Len(features)
    /\ Len(logLikelihood) = Len(features)
    /\ \A k \in 1..Len(features) :
         /\ logLikelihood[k] = AvgLogL(features[k], xi[k], sigmaN)
         /\ speechFrames[k] <=> GtLog(logLikelihood[k], Log(ToExp(threshold)))

\* a result whose two frames differ, the second at exactly log(threshold)
C7_Witness ==
  /\ pc = "done"
  /\ Len(speechFrames) = 2
  /\ speechFrames[1]
  /\ ~speechFrames[2]
  /\ logLikelihood[2] = Log(ToExp(threshold))
  /\ logLikelihood[1] # logLikelihood[2]

RECURSIVE SumOfSquares(_, _, _)
SumOfSquares(feats, j, k) ==
  IF k = 0 THEN Zero
  ELSE Add(Pow2(feats[k][j]), SumOfSquares(feats, j, k - 1))

\* C8: estimateNoiseVariance uses the k = min(nNoiseFrames, spectra.length)
\* leading spectra: it fails iff k = 0, and otherwise returns for every bin j
\* the sum of the squares of bin j of those k spectra divided by k, which is
\* not negative and is the same without the spectra after the k-th.
C8_NoiseVariance ==
  pc = "returned" =>
    LET feats == args[1]
        n == args[2]
        k == IF n < Len(feats) THEN n ELSE Len(feats)
    IN  /\ (k = 0) <=> (ret.err # "")
        /\ k = 0 => ret.err = NoFramesError
        /\ k > 0 =>
             /\ Len(ret.value) = Len(feats[1])
             /\ \A j \in 1..Len(feats[1]) :
                  /\ Mul(ret.value[j], Num(k)) = SumOfSquares(feats, j, k)
                  /\ Le(Zero, ret.value[j])
             /\ ret = EstimateNoiseVariance(SubSeq(feats, 1, k), n)

C8_Witness ==
  /\ pc = "returned"
  /\ ret.err = ""
  /\ args[2] = 2
  /\ Len(args[1]) = 3
  /\ \E j \in 1..Len(ret.value) : ret.value[j] = Norm(5, 2)

\* C9 as claimed: one vector per frame, xi[0][j] = max(y[0][j]^2 /
\* noisePower[j] - 1, 0), and no value of xi is negative.
C9_PrioriSNR ==
  pc = "returned" =>
    LET feats == args[1]
        noise == args[2]
    IN  /\ ret.err = ""
        /\ Len(ret.value) = Len(feats)
        /\ \A j \in 1..Len(feats[1]) :
             ret.value[1][j] =
               MathMax(Sub(Div(Pow2(feats[1][j]), noise[j]), One), Zero)
        /\ \A k \in 1..Len(feats) : \A j \in 1..Len(feats[k]) :
             Le(Zero, ret.value[k][j])

\* C9 as amended: the same with a noise power of exactly zero replaced by
\* Number.EPSILON in the quotient.
C9_PrioriSNREpsilon ==
  pc = "returned" =>
    LET feats == args[1]
        noise == args[2]
    IN  /\ ret.err = ""
        /\ Len(ret.value) = Len(feats)
        /\ \A j \in 1..Len(feats[1]) :
             ret.value[1][j] =
               MathMax(Sub(Div(Pow2(feats[1][j]),
                               IF noise[j] = Zero THEN EPSILON ELSE noise[j]),
                           One), Zero)
        /\ \A k \in 1..Len(feats) : \A j \in 1..Len(feats[k]) :
             Le(Zero, ret.value[k][j])

C9_Witness ==
  /\ pc = "returned"
  /\ Len(args[1]) >= 2
  /\ \E j \in 1..Len(args[2]) :
       /\ args[2][j] = Zero
       /\ Lt(Zero, ret.value[1][j])
       /\ Lt(ret.value[2][j], ret.value[1][j])

\* a likelihood c * e^q of at least Number.EPSILON
AtLeastEpsilon(E) == (~IsNaN(E.c)) /\ Le(EPSILON, E.c) /\ Le(Zero, E.e)

\* C10: the SNR estimation and the decision loop raise no error, divide by
\* no zero and pass to Math.log only values of at least Number.EPSILON.
C10_NoZeroDivisorNoBadLog ==
  /\ pc \in {"decide", "done"} => err = ""
  /\ \A d \in divisors : d # Zero
  /\ \A a \in logArgs : AtLeastEpsilon(a)

\* C13: frameSignal terminates for every detector the constructor accepts,
\* a hop of 0 or less included: the loop has made at most as many passes as
\* the signal has samples.
C13_FrameSignalTerminates ==
  pc = "framing" => Len(frames) <= Len(audio)

\* a logarithm of value 0
IsZeroLog(a) == a.ln = One /\ a.plus = Zero

\* the sum of Math.log over the bins 1..j of non-zero noise power only
RECURSIVE SumLogLNonZero(_, _, _, _)
SumLogLNonZero(frame, xiM, noise, j) ==
  IF j = 0 THEN ZeroLog
  ELSE IF noise[j] = Zero THEN SumLogLNonZero(frame, xiM, noise, j - 1)
  ELSE AddLog(SumLogLNonZero(frame, xiM, noise, j - 1),
              Log(BinLogArgument(frame, xiM, noise, j)))

\* what C14 says of frame k, for its zero-noise bins whose xi is in Xis
ZeroNoiseBinsOf(k, Xis) ==
  LET bins == 1..Len(features[k])
      zero == {j \in bins : sigmaN[j] = Zero}
  IN  /\ \A j \in zero :
             xi[k][j] \in Xis =>
               /\ BinXiJ(xi[k], sigmaN, j) = Zero
               /\ BinLogArgument(features[k], xi[k], sigmaN, j) = ToExp(One)
      /\ (\A j \in zero : xi[k][j] \in Xis) =>
             /\ logLikelihood[k] =
                  DivLog(SumLogLNonZero(features[k], xi[k], sigmaN,
                                        Len(features[k])),
                         Len(features[k]))
             /\ zero = bins => IsZeroLog(logLikelihood[k])

C11_InputsUnchanged ==
  /\ heap[audioRef] = ToFloats(file.samples)
  /\ \A k \in 1..Len(frameRefs) :
       heap[frameRefs[k]] =
         Slice(ToFloats(file.samples), (k - 1) * hopLength,
               (k - 1) * hopLength + frameLength)
  /\ \A k \in 1..Len(windowedRefs) :
       heap[windowedRefs[k]] = ApplyWindow(heap[frameRefs[k]])
  /\ \A k \in 1..Len(features) :
       features[k] = FrameFeatures(heap[frameRefs[k]], frameLength, fftSize)

\* all stages have run on two frames or more, one of them not silent
C11_Witness ==
  /\ pc = "done"
  /\ Len(frameRefs) >= 2
  /\ Len(features) = Len(frameRefs)
  /\ \E k \in 1..Len(frameRefs) : \E j \in 1..frameLength :
       heap[frameRefs[k]][j] # Zero

\* the result of detectSpeech(f, thr) run alone on a detector constructed
\* with (fl, hl), for a run that ends
AloneResult(f, thr, fl, hl) ==
  IF ~f.isAudio THEN Rejected(NotAudioError)
  ELSE IF ~f.decodes THEN Rejected(DecodeError)
  ELSE DetectSpeechRest(ToFloats(f.samples), thr, fl, hl, fl)

\* C12: two detectSpeech calls on one instance, interleaved at their awaits
\* in any way: every call that settles settles with what it would have
\* settled with alone, and frameLength, hopLength, sampleRate, the
\* transform's size and its tables are what the constructor made them.
C12_CallsDoNotInterfere ==
  /\ frameLength = args[1]
  /\ hopLength = args[2]
  /\ sampleRate = DefaultSampleRate
  /\ fftSize = args[1]
  /\ fftHigh = 0
  /\ cosTable = CosTableOf(args[1])
  /\ sinTable = SinTableOf(args[1])
  /\ \A id \in CallIds :
       calls[id].pc = "settled" =>
         calls[id].result =
           AloneResult(calls[id].file, calls[id].threshold, args[1], args[2])

\* two calls that were in flight together have both returned decisions, and
\* not the same ones
C12_Witness ==
  /\ \A id \in CallIds :
       /\ calls[id].pc = "settled"
       /\ calls[id].overlapped
       /\ calls[id].result.err = ""
       /\ calls[id].result.speechFrames # <<>>
  /\ calls["a"].result # calls["b"].result

\* C15: in the App component isProcessing is true in every state in which
\* a call of handleFileChange has started and not yet reached its finally
\* block, whatever the order of input changes, drops and settled detections.
C15_ProcessingWhileRunning ==
  (\E k \in 1..Len(runs) : InProgress(runs[k])) => isProcessing

\* C16: in the App component results that are displayed (regularResults or
\* fastResults not null) were computed from the file held in the file state.
C16_ResultsOfCurrentFile ==
  /\ regularResults.present => regularResults.file = appFile
  /\ fastResults.present => fastResults.file = appFile

====
